---- MODULE Spec2Model ----
(***************************************************************************)
(* Model of pywb/utils/loaders.py: BlockLoader (local file, packaged       *)
(* resource and http range loading), LimitReader, HMACCookieMaker and      *)
(* SeekableTextFileReader.                                                 *)
(*                                                                         *)
(* Text (urls, paths, header values, cookies) is a sequence of one-        *)
(* character strings; file content is a sequence of byte values.           *)
(***************************************************************************)
EXTENDS Integers, Sequences, FiniteSets, TLC

VARIABLES
    fs,        \* the disk: path -> [exists, data, seekable]
    pkgs,      \* installed packaged resources: set of <<namespace, relpath>>
    loader,    \* the BlockLoader object: [cookie_maker]
    maker,     \* a standalone HMACCookieMaker: [made, key, name, duration]
    clock,     \* time.time(), in ticks of 1/TicksPerSec second
    handles,   \* every stream handle opened so far: [kind, path, data, pos, open, seekable]
    call,      \* the BlockLoader.load call made: [op, url, offset, length]
    ret,       \* what the last call returned: [kind, h, limit, exc]
    opens,     \* paths passed to open(), in order
    pkgCalls,  \* <<namespace, relpath>> passed to pkg_resources.resource_stream
    reqs,      \* http requests issued: [url, headers]
    out,       \* all bytes the caller got from read/readline on ret
    last,      \* the last read/readline call: [op, none, n, ask, got, before]
    cookies,   \* HMACCookieMaker.make calls: [at, extra, cookie]
    reader,    \* the SeekableTextFileReader: [pc, fh, filename, size] and its history
    seen,      \* values getsize() has returned
    wrap,      \* the LimitReader.wrap_stream call made: [done, cl, inner, result]
    ext        \* number of changes other processes made to the disk

vars == <<fs, pkgs, loader, maker, clock, handles, call, ret, opens, pkgCalls,
          reqs, out, last, cookies, reader, seen, wrap, ext>>

-----------------------------------------------------------------------------
(* Bounds of the model *)

MaxFileLen == 3     \* largest file on disk, in bytes
MaxOff == 3         \* largest offset passed to load
MaxLen == 2         \* largest length passed to load
MaxN == 2           \* largest size passed to read/readline
MaxClock == 4       \* last clock tick
MaxDur == 3         \* largest configured cookie duration, in ticks
MaxCookies == 2     \* make() calls recorded
MaxExt == 1         \* changes made by other processes

TicksPerSec == 2    \* clock resolution of the model: ticks in one second
DefaultDuration == 10   \* HMACCookieMaker.__init__ duration=10 (seconds)

-----------------------------------------------------------------------------
(* Text helpers *)

Min(a, b) == IF a < b THEN a ELSE b

StartsWith(s, p) == Len(s) >= Len(p) /\ SubSeq(s, 1, Len(p)) = p

\* position of the first c in s, 0 when absent
Find(s, c) ==
    IF \E i \in 1..Len(s) : s[i] = c
    THEN CHOOSE i \in 1..Len(s) : s[i] = c /\ \A j \in 1..(i - 1) : s[j] # c
    ELSE 0

\* s.split(c, 1)
Split1(s, c) ==
    LET i == Find(s, c)
    IN IF i = 0 THEN <<s>>
       ELSE <<SubSeq(s, 1, i - 1), SubSeq(s, i + 1, Len(s))>>

Digits == <<"0", "1", "2", "3", "4", "5", "6", "7", "8", "9">>

RECURSIVE StrNat(_)
StrNat(n) == IF n < 10 THEN <<Digits[n + 1]>>
             ELSE StrNat(n \div 10) \o <<Digits[(n % 10) + 1]>>

\* str(n) / '{0}'.format(n) of an integer
Str(n) == IF n < 0 THEN <<"-">> \o StrNat(0 - n) ELSE StrNat(n)

HttpPrefix == <<"h", "t", "t", "p", ":", "/", "/">>
HttpsPrefix == <<"h", "t", "t", "p", "s", ":", "/", "/">>
FilePrefix == <<"f", "i", "l", "e", ":", "/", "/">>
BytesEq == <<"b", "y", "t", "e", "s", "=">>

is_http(filename) ==
    StartsWith(filename, HttpPrefix) \/ StartsWith(filename, HttpsPrefix)

-----------------------------------------------------------------------------
(* The environment: disk, packages, remote server *)

PA == <<"a">>                   \* a regular file of MaxFileLen bytes
PE == <<"e">>                   \* an empty regular file
PPA == <<"p", "/", "a">>        \* a regular file in directory p
PF == <<"f">>                   \* a fifo: opens, cannot seek
FsPaths == {PA, PE, PPA, PF}

NL == 10
\* first byte value of the file at path, less one
Base(path) == IF path = PA THEN 96 ELSE 64
\* content of n bytes: distinct values, a newline at every third position
Content(base, n) == [i \in 1..n |-> IF i % 3 = 2 THEN NL ELSE base + i]

NoFile == [exists |-> FALSE, data |-> <<>>, seekable |-> FALSE]
RegFile(base, n) == [exists |-> TRUE, data |-> Content(base, n), seekable |-> TRUE]
Fifo(n) == [exists |-> TRUE, data |-> Content(200, n), seekable |-> FALSE]

\* the disk at the start
Disk == [p \in FsPaths |->
           IF p = PA THEN RegFile(Base(PA), MaxFileLen)
           ELSE IF p = PE THEN RegFile(Base(PE), 0)
           ELSE IF p = PPA THEN RegFile(Base(PPA), 2)
           ELSE Fifo(2)]

PkgRes == <<<<"q">>, <<"a">>>>   \* resource a of the installed package q
PkgData == Content(40, 3)
RemoteData == Content(20, 4)     \* the resource the http server holds

Exists(path) == path \in DOMAIN fs /\ fs[path].exists

-----------------------------------------------------------------------------
(* Byte streams: file objects, packaged-resource streams, http bodies *)

NewHandle(kind, path, data, seekable) ==
    [kind |-> kind, path |-> path, data |-> data, pos |-> 0,
     open |-> TRUE, seekable |-> seekable]

Rest(h) == SubSeq(h.data, h.pos + 1, Len(h.data))

\* the current line: up to and including the next newline
Line(h) ==
    LET r == Rest(h)
        i == Find(r, NL)
    IN IF i = 0 THEN r ELSE SubSeq(r, 1, i)

\* file.read(n): everything when n is negative, else at most n bytes
FileRead(h, n) ==
    IF n < 0 THEN Rest(h) ELSE SubSeq(Rest(h), 1, Min(n, Len(Rest(h))))

\* file.readline(n): the line when n is negative, else at most n bytes of it
FileReadline(h, n) ==
    IF n < 0 THEN Line(h) ELSE SubSeq(Line(h), 1, Min(n, Len(Line(h))))

StreamRead(op, h, n) == IF op = "read" THEN FileRead(h, n) ELSE FileReadline(h, n)

-----------------------------------------------------------------------------
(* Return values *)

NoRet == [kind |-> "none", h |-> 0, limit |-> 0, exc |-> "none"]
Raise(e) == [kind |-> "raise", h |-> 0, limit |-> 0, exc |-> e]
RawStream(h) == [kind |-> "stream", h |-> h, limit |-> 0, exc |-> "none"]

\* LimitReader.__init__
LimitReaderInit(h, limit) ==
    [kind |-> "limit", h |-> h, limit |-> IF limit = 0 THEN 1 ELSE limit,
     exc |-> "none"]

\* an optional size argument of read/readline
NoArg == [none |-> TRUE, n |-> 0]
Arg(k) == [none |-> FALSE, n |-> k]
ReadArgs == {NoArg} \cup {Arg(k) : k \in -1..MaxN}

\* Python truth of the argument: None and 0 are false
Truthy(a) == ~a.none /\ a.n # 0

\* LimitReader.read / readline, first line: the size asked of the stream
LimitLength(a, limit) == IF Truthy(a) THEN Min(a.n, limit) ELSE limit

-----------------------------------------------------------------------------
(* HMACCookieMaker *)

NoMaker == [made |-> FALSE, key |-> <<>>, name |-> <<>>, duration |-> 0]

\* HMACCookieMaker.__init__; duration is kept in clock ticks
HMACCookieMakerInit(key, name, duration) ==
    [made |-> TRUE, key |-> key, name |-> name, duration |-> duration]

\* hmac.new(key, msg).hexdigest(): a keyed digest, distinct for distinct
\* (key, msg)
HexDigest(key, msg) == <<"#">> \o key \o <<":">> \o msg

\* Expire without the truncation to whole seconds
ExpireSubSecond(mk, now) == Str(now + mk.duration)

\* str(long(time.time() + self.duration))
Expire(mk, now) == Str((now + mk.duration) \div TicksPerSec)

\* HMACCookieMaker.make
Make(mk, extra_id, now) ==
    LET expire == Expire(mk, now)
        msg == IF extra_id # <<>> THEN extra_id \o <<"-">> \o expire ELSE expire
        hexdigest == HexDigest(mk.key, msg)
    IN IF extra_id # <<>>
       THEN mk.name \o <<"-">> \o extra_id \o <<"=">> \o expire \o <<"-">> \o hexdigest
       ELSE mk.name \o <<"=">> \o expire \o <<"-">> \o hexdigest

Key1 == <<"k">>
Key2 == <<"K">>
Name1 == <<"c">>
DefaultMaker == HMACCookieMakerInit(Key1, Name1, DefaultDuration * TicksPerSec)

-----------------------------------------------------------------------------
(* BlockLoader *)

\* RangeHeader with the last byte position off by one
RangeHeaderOffByOne(offset, length) ==
    IF length > 0
    THEN BytesEq \o Str(offset) \o <<"-">> \o Str(offset + length)
    ELSE BytesEq \o Str(offset) \o <<"-">>

\* load_http, lines 85-88
RangeHeader(offset, length) ==
    IF length > 0
    THEN BytesEq \o Str(offset) \o <<"-">> \o Str(offset + length - 1)
    ELSE BytesEq \o Str(offset) \o <<"-">>

\* load_http, lines 90-94
Headers(offset, length, now) ==
    IF loader.cookie_maker.made
    THEN [Range |-> RangeHeader(offset, length),
          Cookie |-> Make(loader.cookie_maker, <<>>, now)]
    ELSE [Range |-> RangeHeader(offset, length)]

RECURSIVE ParseNat(_)
\* the number a string of decimal digits denotes
ParseNat(s) ==
    IF s = <<>> THEN 0
    ELSE 10 * ParseNat(SubSeq(s, 1, Len(s) - 1))
         + (CHOOSE d \in 0..9 : Digits[d + 1] = s[Len(s)])

\* the server honouring a Range header over the resource it holds
ServerBody(range) ==
    LET spec == Split1(SubSeq(range, Len(BytesEq) + 1, Len(range)), "-")
        first == ParseNat(spec[1])
        lastb == IF spec[2] = <<>> THEN Len(RemoteData) - 1 ELSE ParseNat(spec[2])
    IN SubSeq(RemoteData, first + 1, Min(lastb + 1, Len(RemoteData)))

Offsets == 0..MaxOff \cup {12}

NoCall == [op |-> "none", url |-> <<>>, offset |-> 0, length |-> 0]

\* load_http: serverOk is whether urlopen gets a response
load_http(url, offset, length, serverOk) ==
    LET headers == Headers(offset, length, clock)
        body == NewHandle("http", url, ServerBody(headers.Range), FALSE)
    IN /\ reqs' = Append(reqs, [url |-> url, headers |-> headers])
       /\ IF serverOk
          THEN /\ handles' = Append(handles, body)
               /\ ret' = RawStream(Len(handles) + 1)
          ELSE /\ handles' = handles
               /\ ret' = Raise("URLError")
       /\ UNCHANGED <<opens, pkgCalls>>

\* the seek of line 73: whether afile.seek(offset) raises
SeekRaises(afile, offset) == offset > 0 /\ ~afile.seekable

\* Seeked with the wrong comparison: an offset of 1 is not sought
SeekedAboveOne(afile, offset) ==
    IF offset > 1 /\ afile.seekable THEN [afile EXCEPT !.pos = offset] ELSE afile

\* the stream position after lines 72-73
Seeked(afile, offset) ==
    IF offset > 0 /\ afile.seekable THEN [afile EXCEPT !.pos = offset] ELSE afile

\* TryPkg without the file_only check
TryPkgAlways(file_only, openOk, pkg_split) == ~openOk /\ Len(pkg_split) # 1

\* lines 60-67: whether the packaged-resource lookup of line 69 is reached
TryPkg(file_only, openOk, pkg_split) ==
    ~openOk /\ ~file_only /\ Len(pkg_split) # 1

\* load_file_or_resource
load_file_or_resource(id, offset, length) ==
    LET file_only == StartsWith(id, FilePrefix)
        url == IF file_only THEN SubSeq(id, Len(FilePrefix) + 1, Len(id)) ELSE id
        openOk == Exists(url)
        pkg_split == Split1(url, "/")
        tryPkg == TryPkg(file_only, openOk, pkg_split)
        pkgOk == tryPkg /\ <<pkg_split[1], pkg_split[2]>> \in pkgs
        afile == IF openOk
                 THEN NewHandle("file", url, fs[url].data, fs[url].seekable)
                 ELSE NewHandle("pkg", url, PkgData, TRUE)
        h == Len(handles) + 1
    IN /\ opens' = Append(opens, url)
       /\ pkgCalls' = IF tryPkg THEN Append(pkgCalls, <<pkg_split[1], pkg_split[2]>>)
                      ELSE pkgCalls
       /\ handles' = IF openOk \/ pkgOk THEN Append(handles, Seeked(afile, offset))
                     ELSE handles
       /\ ret' = IF ~openOk /\ ~tryPkg THEN Raise("IOError")
                 ELSE IF ~openOk /\ ~pkgOk THEN Raise("ResourceError")
                 ELSE IF SeekRaises(afile, offset) THEN Raise("IOError")
                 ELSE IF length >= 0 THEN LimitReaderInit(h, length)
                 ELSE RawStream(h)
       /\ UNCHANGED reqs

Ids == { HttpPrefix \o <<"h">>, HttpsPrefix \o <<"h">>,
         FilePrefix \o PA, FilePrefix \o PPA, FilePrefix \o <<"n">>,
         FilePrefix \o <<"q", "/", "a">>,
         PA, PE, PPA, PF, <<"n">>, <<"q", "/", "a">>, <<"q", "/", "d", "/", "a">>,
         <<"h", "t", "t", "p", ":", "/", "a">> }

NoLast == [op |-> "none", none |-> TRUE, n |-> 0, ask |-> 0, got |-> 0, before |-> 0]
NoWrap == [done |-> FALSE, cl |-> [t |-> "none", s |-> <<>>, i |-> 0],
           inner |-> NoRet, result |-> NoRet]

\* BlockLoader.load
Load(url, offset, length, serverOk) ==
    /\ call.op = "none"
    /\ call' = [op |-> "load", url |-> url, offset |-> offset, length |-> length]
    /\ IF is_http(url)
       THEN load_http(url, offset, length, serverOk)
       ELSE load_file_or_resource(url, offset, length)
    /\ UNCHANGED <<fs, pkgs, loader, maker, clock, out, last, cookies, reader,
                   seen, wrap, ext>>

-----------------------------------------------------------------------------
(* Reading the returned stream *)

\* LimitReader.read / LimitReader.readline
LimitRead(op, a) ==
    LET h == handles[ret.h]
        length == LimitLength(a, ret.limit)
        buff == StreamRead(op, h, length)
    IN /\ ret.kind = "limit"
       /\ handles' = [handles EXCEPT ![ret.h].pos = h.pos + Len(buff)]
       /\ ret' = [ret EXCEPT !.limit = ret.limit - Len(buff)]
       /\ out' = out \o buff
       /\ last' = [op |-> op, none |-> a.none, n |-> a.n, ask |-> length,
                   got |-> Len(buff), before |-> ret.limit]

\* read / readline of the raw stream load returned
RawRead(op, a) ==
    LET h == handles[ret.h]
        length == IF a.none THEN -1 ELSE a.n
        buff == StreamRead(op, h, length)
    IN /\ ret.kind = "stream"
       /\ handles' = [handles EXCEPT ![ret.h].pos = h.pos + Len(buff)]
       /\ ret' = ret
       /\ out' = out \o buff
       /\ last' = [op |-> op, none |-> a.none, n |-> a.n, ask |-> length,
                   got |-> Len(buff), before |-> 0]

Read(op, a) ==
    /\ ret.kind \in {"stream", "limit"}
    /\ handles[ret.h].open
    /\ LimitRead(op, a) \/ RawRead(op, a)
    /\ UNCHANGED <<fs, pkgs, loader, maker, clock, call, opens, pkgCalls, reqs,
                   cookies, reader, seen, wrap, ext>>

-----------------------------------------------------------------------------
(* LimitReader.close and LimitReader.wrap_stream *)

\* LimitReader.close, or close of the raw stream
Close ==
    /\ ret.kind \in {"stream", "limit"}
    /\ handles[ret.h].open
    /\ handles' = [handles EXCEPT ![ret.h].open = FALSE]
    /\ UNCHANGED <<fs, pkgs, loader, maker, clock, call, ret, opens, pkgCalls,
                   reqs, out, last, cookies, reader, seen, wrap, ext>>

\* Python values a caller passes as content_length
PyNone == [t |-> "none", s |-> <<>>, i |-> 0]
PyStr(s) == [t |-> "str", s |-> s, i |-> 0]
PyInt(i) == [t |-> "int", s |-> <<>>, i |-> i]
PyFloat(halves) == [t |-> "float", s |-> <<>>, i |-> halves]   \* the float halves/2
PyInf == [t |-> "inf", s |-> <<>>, i |-> 0]                     \* float('inf')
PyNan == [t |-> "nan", s |-> <<>>, i |-> 0]                     \* float('nan')

RECURSIVE Strip(_)
\* s.strip()
Strip(s) ==
    IF s = <<>> THEN s
    ELSE IF Head(s) = " " THEN Strip(Tail(s))
    ELSE IF s[Len(s)] = " " THEN Strip(SubSeq(s, 1, Len(s) - 1))
    ELSE s

IsDigits(s) == s # <<>> /\ \A k \in 1..Len(s) : \E d \in 1..10 : Digits[d] = s[k]

Ok(v) == [exc |-> "none", v |-> v]
Exc(e) == [exc |-> e, v |-> 0]

\* int(text): optional blanks, optional sign, decimal digits
IntOfStr(s) ==
    LET t == Strip(s)
        signed == t # <<>> /\ Head(t) \in {"+", "-"}
        body == IF signed THEN Tail(t) ELSE t
    IN IF ~IsDigits(body) THEN Exc("ValueError")
       ELSE IF signed /\ Head(t) = "-" THEN Ok(0 - ParseNat(body))
       ELSE Ok(ParseNat(body))

\* int(x) of line 172
int(x) ==
    CASE x.t = "none" -> Exc("TypeError")
      [] x.t = "str" -> IntOfStr(x.s)
      [] x.t = "int" -> Ok(x.i)
      [] x.t = "float" -> Ok(IF x.i < 0 THEN 0 - ((0 - x.i) \div 2) ELSE x.i \div 2)
      [] x.t = "inf" -> Exc("OverflowError")
      [] x.t = "nan" -> Exc("ValueError")

\* the exceptions line 176 catches
Caught == {"ValueError", "TypeError"}

\* LimitReader.wrap_stream
wrap_stream(stream, content_length) ==
    LET r == int(content_length)
    IN IF r.exc = "none"
       THEN IF r.v > 0 THEN LimitReaderInit(stream.h, r.v) ELSE stream
       ELSE IF r.exc \in Caught THEN stream
       ELSE Raise(r.exc)

ContentLengths ==
    {PyNone, PyInf, PyNan}
    \cup {PyStr(s) : s \in {<<>>, <<"a", "b">>, <<"0">>, <<"2">>, <<"5", "0">>,
                            <<"-", "1">>, <<"+", "1">>, <<" ", "1", " ">>,
                            <<"1", ".", "5">>}}
    \cup {PyInt(i) : i \in -1..MaxN}
    \cup {PyFloat(f) : f \in {-3, 1, 3}}

WrapStream(content_length) ==
    /\ ret.kind = "stream"
    /\ ~wrap.done
    /\ handles[ret.h].open
    /\ ret' = wrap_stream(ret, content_length)
    /\ wrap' = [done |-> TRUE, cl |-> content_length, inner |-> ret,
                result |-> ret']
    /\ UNCHANGED <<fs, pkgs, loader, maker, clock, handles, call, opens,
                   pkgCalls, reqs, out, last, cookies, reader, seen, ext>>

-----------------------------------------------------------------------------
(* A standalone HMACCookieMaker and the clock *)

NewHMACCookieMaker(key, name, duration) ==
    /\ ~maker.made
    /\ maker' = HMACCookieMakerInit(key, name, duration)
    /\ UNCHANGED <<fs, pkgs, loader, clock, handles, call, ret, opens, pkgCalls,
                   reqs, out, last, cookies, reader, seen, wrap, ext>>

ExtraIds == {<<>>, <<"x">>}

MakeCookie(extra_id) ==
    /\ maker.made
    /\ Len(cookies) < MaxCookies
    /\ cookies' = Append(cookies, [at |-> clock, extra |-> extra_id,
                                   cookie |-> Make(maker, extra_id, clock)])
    /\ UNCHANGED <<fs, pkgs, loader, maker, clock, handles, call, ret, opens,
                   pkgCalls, reqs, out, last, reader, seen, wrap, ext>>

Tick ==
    /\ clock < MaxClock
    /\ clock' = clock + 1
    /\ UNCHANGED <<fs, pkgs, loader, maker, handles, call, ret, opens, pkgCalls,
                   reqs, out, last, cookies, reader, seen, wrap, ext>>

-----------------------------------------------------------------------------
(* SeekableTextFileReader, and other processes changing the disk *)

NoReader == [pc |-> "none", fh |-> 0, filename |-> <<>>, size |-> 0,
             sizeAtOpen |-> 0, extAtOpen |-> 0, sizeAtQuery |-> 0, raced |-> FALSE]

\* os.path.getsize(filename)
Getsize(filename) == Len(fs[filename].data)

\* __init__, line 193: open(filename, 'rb')
ReaderOpen(filename) ==
    /\ reader.pc = "none"
    /\ IF Exists(filename)
       THEN /\ handles' = Append(handles, NewHandle("file", filename,
                                 fs[filename].data, fs[filename].seekable))
            /\ reader' = [reader EXCEPT !.pc = "opened", !.fh = Len(handles) + 1,
                                        !.sizeAtOpen = Getsize(filename),
                                        !.extAtOpen = ext]
            /\ ret' = ret
       ELSE /\ handles' = handles
            /\ reader' = [reader EXCEPT !.pc = "raised"]
            /\ ret' = Raise("IOError")
    /\ opens' = Append(opens, filename)
    /\ UNCHANGED <<fs, pkgs, loader, maker, clock, call, pkgCalls, reqs, out,
                   last, cookies, seen, wrap, ext>>

\* __init__, lines 194-195: self.filename, self.size = os.path.getsize(filename)
ReaderSize ==
    LET filename == handles[reader.fh].path
    IN /\ reader.pc = "opened"
       /\ IF Exists(filename)
          THEN /\ reader' = [reader EXCEPT !.pc = "ready", !.filename = filename,
                                           !.size = Getsize(filename),
                                           !.sizeAtQuery = Len(fs[filename].data),
                                           !.raced = (ext # reader.extAtOpen)]
               /\ ret' = ret
          ELSE /\ reader' = [reader EXCEPT !.pc = "raised", !.filename = filename]
               /\ ret' = Raise("OSError")
       /\ UNCHANGED <<fs, pkgs, loader, maker, clock, handles, call, opens,
                      pkgCalls, reqs, out, last, cookies, seen, wrap, ext>>

\* getsize asking the disk again on every call
getsizeLive(r) == Len(fs[r.filename].data)

\* SeekableTextFileReader.getsize
getsize(r) == r.size

ReaderGetsize ==
    /\ reader.pc = "ready"
    /\ seen' = seen \cup {getsize(reader)}
    /\ UNCHANGED <<fs, pkgs, loader, maker, clock, handles, call, ret, opens,
                   pkgCalls, reqs, out, last, cookies, reader, wrap, ext>>

\* SeekableTextFileReader.read / readline
ReaderRead(op) ==
    LET h == handles[reader.fh]
        buff == StreamRead(op, h, -1)
    IN /\ reader.pc = "ready"
       /\ h.open
       /\ handles' = [handles EXCEPT ![reader.fh].pos = h.pos + Len(buff)]
       /\ out' = buff
       /\ UNCHANGED <<fs, pkgs, loader, maker, clock, call, ret, opens, pkgCalls,
                      reqs, last, cookies, reader, seen, wrap, ext>>

\* SeekableTextFileReader.seek
ReaderSeek(offset) ==
    /\ reader.pc = "ready"
    /\ handles[reader.fh].open
    /\ handles' = [handles EXCEPT ![reader.fh].pos = offset]
    /\ UNCHANGED <<fs, pkgs, loader, maker, clock, call, ret, opens, pkgCalls,
                   reqs, out, last, cookies, reader, seen, wrap, ext>>

\* SeekableTextFileReader.close
ReaderClose ==
    /\ reader.pc = "ready"
    /\ handles[reader.fh].open
    /\ handles' = [handles EXCEPT ![reader.fh].open = FALSE]
    /\ UNCHANGED <<fs, pkgs, loader, maker, clock, call, ret, opens, pkgCalls,
                   reqs, out, last, cookies, reader, seen, wrap, ext>>

\* another process rewrites the file at path in place, to n bytes
ExtWrite(path, n) ==
    /\ ext < MaxExt
    /\ Exists(path)
    /\ fs[path].seekable
    /\ n # Len(fs[path].data)
    /\ fs' = [fs EXCEPT ![path].data = Content(Base(path), n)]
    /\ handles' = [k \in DOMAIN handles |->
                     IF handles[k].kind = "file" /\ handles[k].path = path
                     THEN [handles[k] EXCEPT !.data = fs'[path].data]
                     ELSE handles[k]]
    /\ ext' = ext + 1
    /\ UNCHANGED <<pkgs, loader, maker, clock, call, ret, opens, pkgCalls, reqs,
                   out, last, cookies, reader, seen, wrap>>

\* another process removes the file at path; open handles keep the content
ExtRemove(path) ==
    /\ ext < MaxExt
    /\ Exists(path)
    /\ fs' = [fs EXCEPT ![path] = NoFile]
    /\ ext' = ext + 1
    /\ UNCHANGED <<pkgs, loader, maker, clock, handles, call, ret, opens,
                   pkgCalls, reqs, out, last, cookies, reader, seen, wrap>>

-----------------------------------------------------------------------------
(* Specifications *)

Init ==
    /\ fs = Disk
    /\ pkgs = {PkgRes}
    /\ loader \in {[cookie_maker |-> NoMaker], [cookie_maker |-> DefaultMaker]}
    /\ maker = NoMaker
    /\ clock = 0
    /\ handles = <<>>
    /\ call = NoCall
    /\ ret = NoRet
    /\ opens = <<>>
    /\ pkgCalls = <<>>
    /\ reqs = <<>>
    /\ out = <<>>
    /\ last = NoLast
    /\ cookies = <<>>
    /\ reader = NoReader
    /\ seen = {}
    /\ wrap = NoWrap
    /\ ext = 0

\* BlockLoader, LimitReader and the streams they return
Next ==
    \/ \E url \in Ids, offset \in Offsets, length \in -1..MaxLen,
          serverOk \in BOOLEAN : Load(url, offset, length, serverOk)
    \/ \E op \in {"read", "readline"}, a \in ReadArgs : Read(op, a)
    \/ Close

Spec == Init /\ [][Next]_vars

\* LimitReader.wrap_stream over the raw streams load returns
NextWrap ==
    \/ \E url \in {PA, HttpPrefix \o <<"h">>}, offset \in 0..1 :
          \E serverOk \in BOOLEAN : Load(url, offset, -1, serverOk)
    \/ \E op \in {"read", "readline"}, a \in ReadArgs : Read(op, a)
    \/ \E cl \in ContentLengths : WrapStream(cl)
    \/ Close

SpecWrap == Init /\ [][NextWrap]_vars

\* HMACCookieMaker under a running clock
NextCookie ==
    \/ \E key \in {Key1, Key2}, duration \in 0..MaxDur \cup {DefaultDuration * TicksPerSec} :
          NewHMACCookieMaker(key, Name1, duration)
    \/ \E extra_id \in ExtraIds : MakeCookie(extra_id)
    \/ Tick

SpecCookie == Init /\ [][NextCookie]_vars

\* SeekableTextFileReader beside other processes
NextReader ==
    \/ \E filename \in {PA, PE, PPA, <<"n">>} : ReaderOpen(filename)
    \/ ReaderSize
    \/ ReaderGetsize
    \/ \E op \in {"read", "readline"} : ReaderRead(op)
    \/ \E offset \in 0..MaxOff : ReaderSeek(offset)
    \/ ReaderClose
    \/ \E path \in {PA, PE, PPA}, n \in 0..MaxFileLen : ExtWrite(path, n)
    \/ \E path \in {PA, PE, PPA} : ExtRemove(path)

SpecReader == Init /\ [][NextReader]_vars

-----------------------------------------------------------------------------
(* Properties *)

HasPrefix(u, p) == \A k \in 1..Len(p) : k <= Len(u) /\ u[k] = p[k]
HttpId(u) == HasPrefix(u, HttpPrefix) \/ HasPrefix(u, HttpsPrefix)
LocalPath(u) == IF HasPrefix(u, FilePrefix) THEN [k \in 1..(Len(u) - 7) |-> u[k + 7]] ELSE u
OnDisk(path) == path \in FsPaths /\ fs[path].exists
LoadedLocal == call.op = "load" /\ ~HttpId(call.url)
\* a read that asked for bytes and got none
Drained == last.op # "none" /\ last.ask # 0 /\ last.got = 0

\* C1: the stream load returns for a local identifier and a length l >= 0
\* hands out at most l bytes in total, whatever read and readline calls are
\* made on it.
C1_AtMostLength ==
    (LoadedLocal /\ call.length >= 0) => Len(out) <= call.length

\* C2: load(path, o, -1) of a regular local file of size S, 0 <= o <= S,
\* returns the raw file stream, and what is read from it is bytes [o, S) of
\* the file: always a prefix of them, and all of them once a read comes back
\* empty.
C2_RawFromOffset ==
    LET path == LocalPath(call.url)
        o == call.offset
    IN (/\ LoadedLocal
        /\ call.length = -1
        /\ OnDisk(path)
        /\ fs[path].seekable
        /\ o <= Len(fs[path].data))
       => /\ ret.kind = "stream"
          /\ handles[ret.h].kind = "file"
          /\ o + Len(out) <= Len(fs[path].data)
          /\ \A k \in 1..Len(out) : out[k] = fs[path].data[o + k]
          /\ Drained => o + Len(out) = Len(fs[path].data)

C2_Witness ==
    /\ LoadedLocal
    /\ call.length = -1
    /\ OnDisk(LocalPath(call.url))
    /\ call.offset > 0
    /\ ret.kind = "stream"
    /\ Drained
    /\ Len(out) >= 2

\* the Range value r reads bytes=<o>-<o+l-1> when l > 0 and bytes=<o>- otherwise
RangeDecodes(r, o, l) ==
    /\ HasPrefix(r, BytesEq)
    /\ LET parts == Split1(SubSeq(r, Len(BytesEq) + 1, Len(r)), "-")
       IN /\ Len(parts) = 2
          /\ IsDigits(parts[1])
          /\ ParseNat(parts[1]) = o
          /\ IF l > 0
             THEN IsDigits(parts[2]) /\ ParseNat(parts[2]) = o + l - 1
             ELSE parts[2] = <<>>

\* C3: an identifier starting with http:// or https:// opens no local file
\* and issues one request whose Range is bytes=o-(o+l-1) when l > 0 and
\* bytes=o- when l <= 0, and the body comes back without a LimitReader; any
\* other identifier issues no request.
C3_HttpRange ==
    call.op = "load" =>
       IF HttpId(call.url)
       THEN /\ opens = <<>>
            /\ pkgCalls = <<>>
            /\ Len(reqs) = 1
            /\ reqs[1].url = call.url
            /\ RangeDecodes(reqs[1].headers.Range, call.offset, call.length)
            /\ ret.kind \in {"stream", "raise"}
            /\ ret.kind = "stream" => handles[ret.h].kind = "http"
       ELSE reqs = <<>>

C3_Witness ==
    /\ call.op = "load"
    /\ HttpId(call.url)
    /\ call.length = 0
    /\ call.offset > 0
    /\ ret.kind = "stream"

\* C4: the packaged-resource lookup is made exactly when the identifier has
\* no file:// prefix, the direct open failed and the identifier holds a '/';
\* its namespace is the text before the first '/' and its path the text
\* after it. A file:// identifier or an identifier without '/' whose open
\* fails raises the open error with no lookup.
C4_PkgFallback ==
    LoadedLocal =>
       LET id == call.url
           fileOnly == HasPrefix(id, FilePrefix)
           openFailed == ~OnDisk(LocalPath(id))
           hasSlash == \E k \in 1..Len(id) : id[k] = "/"
       IN /\ (pkgCalls # <<>>) <=> (~fileOnly /\ openFailed /\ hasSlash)
          /\ pkgCalls # <<>> =>
                /\ Len(pkgCalls) = 1
                /\ opens = <<id>>
                /\ pkgCalls[1][1] \o <<"/">> \o pkgCalls[1][2] = id
                /\ \A k \in 1..Len(pkgCalls[1][1]) : pkgCalls[1][1][k] # "/"
          /\ (openFailed /\ (fileOnly \/ ~hasSlash)) =>
                /\ ret = Raise("IOError")
                /\ pkgCalls = <<>>
                /\ handles = <<>>

C4_Witness ==
    /\ LoadedLocal
    /\ Len(pkgCalls) = 1
    /\ Len(pkgCalls[1][2]) > 1
    /\ ret.kind = "raise"

\* C5: a read or readline made when the LimitReader's budget is zero returns
\* nothing and takes nothing from the stream, whatever its argument, and no
\* call raises the budget.
C5_ExhaustedReadsEmpty ==
    (ret.kind = "limit" /\ last.op # "none") =>
       /\ ret.limit <= last.before
       /\ last.before = 0 => (last.got = 0 /\ ret.limit = 0)

\* C6: read(n) and readline(n) ask the stream for min(n, budget) bytes for
\* every given n, zero included, for the budget when n is omitted, and lower
\* the budget by the number of bytes returned.
C6_AsksClamped ==
    (ret.kind = "limit" /\ last.op # "none") =>
       /\ last.ask = IF last.none THEN last.before ELSE Min(last.n, last.before)
       /\ ret.limit = last.before - last.got

\* C7: wrap_stream never raises: it returns a LimitReader over the stream
\* with budget int(content_length) when that is a positive integer, and the
\* stream itself in every other case.
C7_WrapNeverRaises ==
    wrap.done =>
       /\ wrap.result.kind # "raise"
       /\ IF int(wrap.cl).exc = "none" /\ int(wrap.cl).v > 0
          THEN wrap.result = [kind |-> "limit", h |-> wrap.inner.h,
                              limit |-> int(wrap.cl).v, exc |-> "none"]
          ELSE wrap.result = wrap.inner

SameSecond(i, j) ==
    cookies[i].at \div TicksPerSec = cookies[j].at \div TicksPerSec

\* the token reads name=expiry-digest, or name-extra=expiry-digest, with
\* expiry the whole seconds of now + duration and the digest keyed over
\* expiry, or extra-expiry
TokenForm(c) ==
    LET parts == Split1(c.cookie, "=")
        right == Split1(parts[2], "-")
    IN /\ parts[1] = IF c.extra = <<>> THEN maker.name
                     ELSE maker.name \o <<"-">> \o c.extra
       /\ IsDigits(right[1])
       /\ TicksPerSec * ParseNat(right[1]) <= c.at + maker.duration
       /\ c.at + maker.duration < TicksPerSec * (ParseNat(right[1]) + 1)
       /\ right[2] = HexDigest(maker.key, IF c.extra = <<>> THEN right[1]
                                          ELSE c.extra \o <<"-">> \o right[1])

\* C8 as stated: two make calls with the same secondary id within the same
\* whole second return the same token, for every duration, and the token has
\* the form name=expiry-digest.
C8_SameSecondSameToken ==
    /\ \A i, j \in DOMAIN cookies :
          (cookies[i].extra = cookies[j].extra /\ SameSecond(i, j))
             => cookies[i].cookie = cookies[j].cookie
    /\ \A i \in DOMAIN cookies : TokenForm(cookies[i])

\* C8, amended: two make calls with the same secondary id within the same
\* whole second return the same token when the duration is a whole number of
\* seconds, and the token has the form name=expiry-digest.
C8_WholeDuration ==
    /\ \A i, j \in DOMAIN cookies :
          (/\ cookies[i].extra = cookies[j].extra
           /\ SameSecond(i, j)
           /\ maker.duration % TicksPerSec = 0)
             => cookies[i].cookie = cookies[j].cookie
    /\ \A i \in DOMAIN cookies : TokenForm(cookies[i])

C8_Witness ==
    \E i, j \in DOMAIN cookies :
       /\ cookies[i].at # cookies[j].at
       /\ SameSecond(i, j)
       /\ cookies[i].extra = cookies[j].extra
       /\ cookies[i].extra # <<>>
       /\ maker.duration % TicksPerSec = 0
       /\ maker.duration > 0

\* C9 as stated: getsize() returns the byte length the file had when it was
\* opened, whatever other processes do to the file and whenever.
C9_SizeAtOpen == \A v \in seen : v = reader.sizeAtOpen

\* C9, amended: getsize() returns the byte length the file had at the
\* constructor's size query, the same after any read, readline, seek or later
\* change of the file; it is the length at open when no other process
\* changed the file between the open and the size query.
C9_SizeAtQuery ==
    \A v \in seen :
       /\ v = reader.sizeAtQuery
       /\ ~reader.raced => v = reader.sizeAtOpen

C9_Witness ==
    /\ seen # {}
    /\ ~reader.raced
    /\ ext > 0
    /\ Len(fs[reader.filename].data) # reader.sizeAtOpen
    /\ handles[reader.fh].pos > 0

\* C10: when load or the SeekableTextFileReader constructor raises, no
\* handle the call opened is left open.
C10_NoHandleLeak ==
    ret.kind = "raise" => \A k \in DOMAIN handles : ~handles[k].open

====
